---- MODULE Spec2Model ----
(***************************************************************************)
(* A model of grepper.py: the template-to-regex compiler (Grepper), the    *)
(* line matcher (Grepper.match_line, Match), the line filter (main) and    *)
(* the call tracer (CodeTrace.trace).                                      *)
(*                                                                         *)
(* A Python str is a sequence of one-character strings.  Optional values   *)
(* are sequences of length at most one: <<>> is None, <<v>> is v.          *)
(***************************************************************************)
EXTENDS Integers, Sequences, FiniteSets, TLC

None == <<>>
Some(v) == <<v>>

NL == "\n"
BS == "\\"

\* Past-the-end reads give the empty string, which is no character.
At(s, i) == IF i >= 1 /\ i <= Len(s) THEN s[i] ELSE ""

\* ----------------------------------------------------------------------
\* The regular-expression dialect used by grepper.py (Python's re module,
\* str patterns, flags=re.UNICODE).
\* ----------------------------------------------------------------------

\* re.escape: the characters it prefixes with a backslash (Python >= 3.7).
SpecialChars ==
    {"(", ")", "[", "]", "{", "}", "?", "*", "+", "-", "|", "^", "$",
     "\\", ".", "&", "~", "#", " ", "\t", "\n", "\r", "\f"}

Digit == {"0", "1", "2", "3", "4", "5", "6", "7", "8", "9"}

\* \s and \S
Whitespace == {" ", "\t", "\n", "\r", "\f"}

\* Character classes: "dot" is '.', which without re.DOTALL excludes the
\* newline; "s" is \s; "S" is \S.
InClass(cls, c) ==
    CASE cls = "dot" -> c # "" /\ c # NL
      [] cls = "s"   -> c \in Whitespace
      [] cls = "S"   -> c # "" /\ c \notin Whitespace
      [] OTHER       -> FALSE

\* '.' taken for an ordinary character and left unescaped.
RECURSIVE re_escape_dot(_)
re_escape_dot(s) ==
    IF s = <<>> THEN <<>>
    ELSE (IF Head(s) \in SpecialChars \ {"."} THEN <<BS, Head(s)>> ELSE <<Head(s)>>)
         \o re_escape_dot(Tail(s))

\* re.escape(pattern), grepper.py line 225
RECURSIVE re_escape(_)
re_escape(s) ==
    IF s = <<>> THEN <<>>
    ELSE (IF Head(s) \in SpecialChars THEN <<BS, Head(s)>> ELSE <<Head(s)>>)
         \o re_escape(Tail(s))

\* str(int) for a non-negative int: decimal digits without leading zeros.
DigitOf(d) == CASE d = 0 -> "0" [] d = 1 -> "1" [] d = 2 -> "2" [] d = 3 -> "3"
                [] d = 4 -> "4" [] d = 5 -> "5" [] d = 6 -> "6" [] d = 7 -> "7"
                [] d = 8 -> "8" [] d = 9 -> "9"

RECURSIVE IntToStr(_)
IntToStr(i) == IF i < 10 THEN <<DigitOf(i)>> ELSE IntToStr(i \div 10) \o <<DigitOf(i % 10)>>

\* int(digits)
ValueOf(c) == CHOOSE d \in 0..9 : DigitOf(d) = c

RECURSIVE StrToInt(_)
StrToInt(ds) ==
    IF ds = <<>> THEN 0
    ELSE 10 * StrToInt(SubSeq(ds, 1, Len(ds) - 1)) + ValueOf(ds[Len(ds)])

\* The first position at or after i that holds no digit: the end of \d+,
\* which is greedy and is always followed by a non-digit in _TOKEN_CAPTURE_RE.
RECURSIVE DigitRunEnd(_, _)
DigitRunEnd(s, i) == IF At(s, i) \in Digit THEN DigitRunEnd(s, i + 1) ELSE i

\* _TOKEN_CAPTURE_RE = r"%\\{(?P<index>\d+)(?P<modifier>G|S(\d+))?\\}" tried at
\* position i of s: None, or the match (end: the position after it).
TokenCaptureAt(s, i) ==
    LET d == DigitRunEnd(s, i + 3)
        n == DigitRunEnd(s, d + 1)
        closes(p) == At(s, p) = BS /\ At(s, p + 1) = "}"
        m(e, modifier) ==
            Some([start |-> i, end |-> e, index |-> SubSeq(s, i + 3, d - 1),
                  modifier |-> modifier, group0 |-> SubSeq(s, i, e - 1),
                  string |-> s])
    IN  IF ~(At(s, i) = "%" /\ At(s, i + 1) = BS /\ At(s, i + 2) = "{" /\ d > i + 3)
        THEN None
        ELSE IF At(s, d) = "G" /\ closes(d + 1) THEN m(d + 3, <<"G">>)
        ELSE IF At(s, d) = "S" /\ n > d + 1 /\ closes(n) THEN m(n + 2, SubSeq(s, d, n - 1))
        ELSE IF closes(d) THEN m(d + 2, <<>>)
        ELSE None

\* ----------------------------------------------------------------------
\* CodeTrace
\* ----------------------------------------------------------------------

\* A call that has run: the events it wrote, whether it ended by raising
\* (exc: the exception; unwound: the traced calls the exception has left,
\* outermost first), and what it returned (val).
NoExc == [type |-> "", msg |-> "", token |-> <<>>, pattern |-> <<>>]
Returned(val, events) ==
    [raised |-> FALSE, exc |-> NoExc, val |-> val, events |-> events, unwound |-> <<>>]
Raised(exc, events) ==
    [raised |-> TRUE, exc |-> exc, val |-> None, events |-> events, unwound |-> <<>>]
\* One step after another, each giving a sequence: an exception of the first
\* ends both, an exception of the second comes after the first's events.
Sequel(first, second) ==
    IF first.raised THEN first
    ELSE IF second.raised THEN [second EXCEPT !.events = first.events \o second.events]
    ELSE Returned(first.val \o second.val, first.events \o second.events)

\* CodeTrace._format_call: instance is None for a function or staticmethod,
\* a class for a classmethod, an object for an instance method.
_format_call(function, instance) ==
    IF instance = None THEN <<"[fn] ", function>>
    ELSE IF instance[1].isclass THEN <<"[cm] ", instance[1].name, ".", function>>
    ELSE <<"[im] ", instance[1].name, ".", function>>

TheClass(name) == Some([isclass |-> TRUE, name |-> name])
AnObject(name) == Some([isclass |-> FALSE, name |-> name])

\* One line of the trace sink: CodeTrace._prefix without the timestamp.
Event(action, function, instance) ==
    [action |-> action, call |-> _format_call(function, instance)]

\* CodeTrace._print_call_arguments and _print_call_result: one line each.
_print_call_arguments(function, instance) == <<Event("ENTER", function, instance)>>
_print_call_result(function, instance) == <<Event("EXIT", function, instance)>>

\* The wrapper _trace that CodeTrace.trace installs, applied to a call of
\* `function` whose body ran as `body`: ENTER is printed before the body's
\* events, EXIT after them, and only if the body returned.
_trace(skip, function, instance, body) ==
    IF skip THEN body
    ELSE [body EXCEPT
            !.events = _print_call_arguments(function, instance) \o body.events
                \o (IF body.raised THEN <<>> ELSE _print_call_result(function, instance)),
            !.unwound = IF body.raised
                        THEN <<_format_call(function, instance)>> \o body.unwound
                        ELSE <<>>]

\* ----------------------------------------------------------------------
\* Grepper: compilation
\* ----------------------------------------------------------------------

\* Regex text is a sequence of items: a character of the escaped template,
\* or a piece of the replacement _map_token_to_re returns, kept in parsed
\* form: the opening (?P<name> and closing ) of the group, X* / X*? and
\* a single \s.
Chr(c) == [t |-> "chr", c |-> c, greedy |-> FALSE, name |-> <<>>]
Open(name) == [t |-> "open", c |-> "", greedy |-> FALSE, name |-> name]
Close(name) == [t |-> "close", c |-> "", greedy |-> FALSE, name |-> name]
Star(cls, greedy) == [t |-> "star", c |-> cls, greedy |-> greedy, name |-> <<>>]
One(cls) == [t |-> "one", c |-> cls, greedy |-> FALSE, name |-> <<>>]
Lit(c) == [t |-> "lit", c |-> c, greedy |-> FALSE, name |-> <<>>]

_TOKEN_GROUP_PREFIX == "token_"
GroupName(index) == <<_TOKEN_GROUP_PREFIX>> \o index

\* X{n} of a group without captures: n copies of X.
RECURSIVE Repeat(_, _)
Repeat(x, n) == IF n = 0 THEN <<>> ELSE x \o Repeat(x, n - 1)

\* re.sub(r"\\(.)", r"\1", string): '.' does not match a newline.
RECURSIVE UnescapeFrom(_, _)
UnescapeFrom(s, i) ==
    IF i > Len(s) THEN <<>>
    ELSE IF s[i] = BS /\ InClass("dot", At(s, i + 1))
         THEN <<s[i + 1]>> \o UnescapeFrom(s, i + 2)
         ELSE <<s[i]>> \o UnescapeFrom(s, i + 1)

_unescape(string) ==
    _trace(FALSE, "_unescape", None, Returned(UnescapeFrom(string, 1), <<>>))

DuplicateTokenIndex(unescaped_token, unescaped_pattern) ==
    Raised([type |-> "ValueError", msg |-> "Duplicate token index",
            token |-> unescaped_token.val, pattern |-> unescaped_pattern.val],
           unescaped_token.events \o unescaped_pattern.events)

_raise_on_duplicate_token_index(token_match) ==
    _trace(FALSE, "_raise_on_duplicate_token_index", TheClass("Grepper"),
           DuplicateTokenIndex(_unescape(token_match.group0),
                               _unescape(token_match.string)))

\* The lazy quantifier's '?' left out: a plain placeholder becomes ".*".
TokenBody_greedy(modifier) ==
    IF modifier = <<>> THEN <<Star("dot", TRUE)>>
    ELSE IF modifier = <<"G">> THEN <<Star("dot", TRUE)>>
    ELSE Repeat(<<Star("S", TRUE), One("s"), Star("S", TRUE)>>, StrToInt(Tail(modifier)))
         \o <<Star("S", TRUE)>>

\* "\s*" written for "\s": the whitespace of an S placeholder is optional.
TokenBody_optional(modifier) ==
    IF modifier = <<>> THEN <<Star("dot", FALSE)>>
    ELSE IF modifier = <<"G">> THEN <<Star("dot", TRUE)>>
    ELSE Repeat(<<Star("S", TRUE), Star("s", TRUE), Star("S", TRUE)>>,
                StrToInt(Tail(modifier)))
         \o <<Star("S", TRUE)>>

\* The text a token is replaced by captures, lines 254-261: ".*?", ".*" or
\* "(?:\S*\s\S*){n}\S*".
TokenBody(modifier) ==
    IF modifier = <<>> THEN <<Star("dot", FALSE)>>
    ELSE IF modifier = <<"G">> THEN <<Star("dot", TRUE)>>
    ELSE Repeat(<<Star("S", TRUE), One("s"), Star("S", TRUE)>>, StrToInt(Tail(modifier)))
         \o <<Star("S", TRUE)>>

TokenRegex(index, modifier) ==
    <<Open(GroupName(index))>> \o TokenBody(modifier) \o <<Close(GroupName(index))>>

_map_token_to_re(token_match, indices) ==
    _trace(FALSE, "_map_token_to_re", TheClass("Grepper"),
        IF token_match.index \in indices
        THEN _raise_on_duplicate_token_index(token_match)
        ELSE Returned([repl |-> TokenRegex(token_match.index, token_match.modifier),
                       indices |-> indices \cup {token_match.index}], <<>>))

\* re.sub(_TOKEN_CAPTURE_RE, token_mapper, pattern) from position i on: the
\* leftmost match is replaced by what token_mapper returned for it and the
\* scan goes on after it; a character no match starts at is kept.
RECURSIVE SubFrom(_, _, _)
Replaced(s, token_match, r) ==
    IF r.raised THEN r
    ELSE Sequel(Returned(r.val.repl, r.events), SubFrom(s, token_match.end, r.val.indices))

SubAt(s, i, indices, tm) ==
    IF tm = None
    THEN Sequel(Returned(<<Chr(s[i])>>, <<>>), SubFrom(s, i + 1, indices))
    ELSE Replaced(s, tm[1], _map_token_to_re(tm[1], indices))

SubFrom(s, i, indices) ==
    IF i > Len(s) THEN Returned(<<>>, <<>>)
    ELSE SubAt(s, i, indices, TokenCaptureAt(s, i))

\* re.compile of the regex text: a backslash makes the next character a
\* literal, an unescaped '.' is any character but a newline, every other
\* character of an escaped template is a literal.
RECURSIVE re_compile(_)
re_compile(text) ==
    IF text = <<>> THEN <<>>
    ELSE LET h == Head(text) IN
         IF h.t # "chr" THEN <<h>> \o re_compile(Tail(text))
         ELSE IF h.c = BS /\ Len(text) >= 2
              THEN <<Lit(text[2].c)>> \o re_compile(Tail(Tail(text)))
         ELSE IF h.c = "." THEN <<One("dot")>> \o re_compile(Tail(text))
         ELSE <<Lit(h.c)>> \o re_compile(Tail(text))

\* Grepper.map_pattern_to_re(pattern), pattern an escaped template; val is
\* the compiled pattern "^regex$", whose anchors the matcher applies.
Compiled(r) == IF r.raised THEN r ELSE Returned(re_compile(r.val), r.events)

map_pattern_to_re(pattern) ==
    _trace(FALSE, "map_pattern_to_re", TheClass("Grepper"),
           Compiled(SubFrom(pattern, 1, {})))

\* The generator of line 226: patterns i.. are escaped and compiled in
\* order; the first exception ends it.
One_(r) == IF r.raised THEN r ELSE Returned(<<r.val>>, r.events)

RECURSIVE CompileFrom(_, _)
CompileFrom(patterns, i) ==
    IF i > Len(patterns) THEN Returned(<<>>, <<>>)
    ELSE Sequel(One_(map_pattern_to_re(re_escape(patterns[i]))),
                CompileFrom(patterns, i + 1))

\* Grepper.__init__(*patterns); val is self.regexes.
Grepper__init__(patterns) ==
    _trace(FALSE, "__init__", AnObject("Grepper"),
        IF patterns = <<>>
        THEN Raised([type |-> "ValueError", msg |-> "One or more patterns is required",
                     token |-> <<>>, pattern |-> <<>>], <<>>)
        ELSE CompileFrom(patterns, 1))

\* ----------------------------------------------------------------------
\* Grepper: matching
\* ----------------------------------------------------------------------

\* The longest run of characters of class cls from position pos on.
RECURSIVE RunLength(_, _, _)
RunLength(cls, string, pos) ==
    IF InClass(cls, At(string, pos)) THEN 1 + RunLength(cls, string, pos + 1) ELSE 0

\* '$' without re.MULTILINE: at the end of the string, or just before a
\* newline that ends it.
AtEnd(string, pos) ==
    pos = Len(string) + 1 \/ (pos = Len(string) /\ string[pos] = NL)

\* Group `name` is closed at pos: the open group gets its end.
CloseGroup(groups, pos) ==
    [groups EXCEPT ![Len(groups)] = [@ EXCEPT !.end = pos]]

\* The backtracking matcher: regex[k..] followed by '$' against string from
\* pos on.  None, or the first match in the engine's order of preference:
\* X* tries the longest run first, X*? the shortest.
RECURSIVE Exec(_, _, _, _, _), Longest(_, _, _, _, _, _), Shortest(_, _, _, _, _, _, _)
Exec(regex, k, string, pos, groups) ==
    IF k > Len(regex)
    THEN IF AtEnd(string, pos) THEN Some([end |-> pos, groups |-> groups]) ELSE None
    ELSE LET node == regex[k] IN
         CASE node.t = "lit" ->
                IF At(string, pos) = node.c
                THEN Exec(regex, k + 1, string, pos + 1, groups) ELSE None
           [] node.t = "one" ->
                IF InClass(node.c, At(string, pos))
                THEN Exec(regex, k + 1, string, pos + 1, groups) ELSE None
           [] node.t = "open" ->
                Exec(regex, k + 1, string, pos,
                     Append(groups, [name |-> node.name, start |-> pos, end |-> pos]))
           [] node.t = "close" ->
                Exec(regex, k + 1, string, pos, CloseGroup(groups, pos))
           [] node.t = "star" ->
                IF node.greedy
                THEN Longest(regex, k, string, pos, groups, RunLength(node.c, string, pos))
                ELSE Shortest(regex, k, string, pos, groups, 0, RunLength(node.c, string, pos))

Longest(regex, k, string, pos, groups, count) ==
    LET m == Exec(regex, k + 1, string, pos + count, groups) IN
    IF m # None THEN m
    ELSE IF count = 0 THEN None
    ELSE Longest(regex, k, string, pos, groups, count - 1)

Shortest(regex, k, string, pos, groups, count, most) ==
    LET m == Exec(regex, k + 1, string, pos + count, groups) IN
    IF m # None THEN m
    ELSE IF count = most THEN None
    ELSE Shortest(regex, k, string, pos, groups, count + 1, most)

\* regex.match(line) of a pattern compiled as "^regex$": None or the
\* re.Match (string, the end of group 0, the named groups).
re_match(regex, string) ==
    LET m == Exec(regex, 1, string, 1, <<>>) IN
    IF m = None THEN None
    ELSE Some([string |-> string, end |-> m[1].end, groups |-> m[1].groups])

\* Match(match, pattern)
Match(wrapped, pattern) == [wrapped |-> wrapped, pattern |-> pattern]

\* The loop of match_line from regex i on: val is None or the Match of the
\* first regex that matches; tried counts the regex.match calls made.
RECURSIVE MatchFrom(_, _, _, _)
MatchFrom(patterns, regexes, line, i) ==
    IF i > Len(regexes) THEN [val |-> None, tried |-> i - 1]
    ELSE LET m == re_match(regexes[i], line) IN
         IF m # None THEN [val |-> Some(Match(m[1], patterns[i])), tried |-> i]
         ELSE MatchFrom(patterns, regexes, line, i + 1)

\* The loop without its return: the last regex that matches wins.
RECURSIVE LastMatchFrom(_, _, _, _)
LastMatchFrom(patterns, regexes, line, i) ==
    IF i = 0 THEN [val |-> None, tried |-> Len(regexes)]
    ELSE LET m == re_match(regexes[i], line) IN
         IF m # None THEN [val |-> Some(Match(m[1], patterns[i])), tried |-> Len(regexes)]
         ELSE LastMatchFrom(patterns, regexes, line, i - 1)

match_line_last(patterns, regexes, line) ==
    _trace(FALSE, "match_line", AnObject("Grepper"),
        Returned(LastMatchFrom(patterns, regexes, line, Len(regexes)), <<>>))

\* Grepper.match_line(line)
match_line(patterns, regexes, line) ==
    _trace(FALSE, "match_line", AnObject("Grepper"),
        Returned(MatchFrom(patterns, regexes, line, 1), <<>>))

\* re.Match.group(name): the text of the first group of that name, or
\* IndexError("no such group").
Group(wrapped, name) ==
    LET hits == {j \in 1..Len(wrapped.groups) : wrapped.groups[j].name = name} IN
    IF hits = {}
    THEN Raised([type |-> "IndexError", msg |-> "no such group",
                 token |-> <<>>, pattern |-> <<>>], <<>>)
    ELSE LET g == wrapped.groups[CHOOSE j \in hits : \A h \in hits : j <= h]
         IN  Returned(SubSeq(wrapped.string, g.start, g.end - 1), <<>>)

\* Match.token(index), index an int
Match_token(match, index) == Group(match.wrapped, GroupName(IntToStr(index)))

\* Match.line
Match_line(match) == match.wrapped.string

\* re.Match.group(0): the text the pattern consumed.
Group0(wrapped) == SubSeq(wrapped.string, 1, wrapped.end - 1)

\* ----------------------------------------------------------------------
\* Inputs
\* ----------------------------------------------------------------------

\* The templates of one Grepper are made of at most MaxPieces pieces in all,
\* a line of at most MaxLineLen characters; token() is asked for the indices
\* 0..MaxIndex.
MaxPieces == 2
MaxLineLen == 3
MaxIndex == 1

LiteralPieces == {<<".">>, <<" ">>, <<NL>>, <<BS>>}
TokenPieces ==
    {<<"%", "{", "0", "}">>, <<"%", "{", "0", "0", "}">>,
     <<"%", "{", "0", "G", "}">>, <<"%", "{", "1", "G", "}">>,
     <<"%", "{", "0", "S", "1", "}">>, <<"%", "{", "1", "S", "0", "}">>}
BrokenPieces == {<<"%", "{", "0">>}
Pieces == LiteralPieces \cup TokenPieces \cup BrokenPieces

LineChars == {".", " ", NL}

RECURSIVE Flatten(_)
Flatten(ss) == IF ss = <<>> THEN <<>> ELSE Head(ss) \o Flatten(Tail(ss))

\* The templates of exactly n pieces.
TemplatesOf(n) == {Flatten(ps) : ps \in [1..n -> Pieces]}

\* The sequences of non-empty templates made of at most budget pieces.
RECURSIVE SeqsWithin(_)
SeqsWithin(budget) ==
    {<<>>} \cup
    UNION {UNION {{<<t>> \o rest : rest \in SeqsWithin(budget - n)}
                  : t \in TemplatesOf(n)} : n \in 1..budget}

\* A template of three placeholders, the middle one limited to one space.
LongTemplates ==
    {<<"%", "{", "1", "G", "}">> \o <<"%", "{", "0", "S", "1", "}">>
        \o <<"%", "{", "0", "0", "}">>}

\* Those, the empty template alone, and a long template alone.
PatternSeqs == SeqsWithin(MaxPieces) \cup {<<<<>>>>} \cup {<<t>> : t \in LongTemplates}

Lines == UNION {[1..n -> LineChars] : n \in 0..MaxLineLen}

\* ----------------------------------------------------------------------
\* State
\* ----------------------------------------------------------------------

VARIABLES
    pc,           \* where the caller of the module is
    patterns,     \* Grepper.patterns
    regexes,      \* Grepper.regexes
    exc,          \* the exception that reached the caller, or None
    line,         \* the argument of match_line, or None
    match,        \* what match_line returned: None or a Match
    tried,        \* the regex.match calls match_line made
    token_index,  \* the argument of Match.token, or None
    token,        \* what Match.token did: None before the call
    file,         \* CodeTrace.file, the sink in use
    trace,        \* the events written so far, each with its sink
    stack,        \* the traced calls in progress, outermost first
    unwound,      \* the traced calls an exception has ended, outermost first
    argv,         \* main: the command line (patterns, trace_file)
    in_file,      \* main: the lines not read yet
    out_file,     \* main: the lines printed
    decorated     \* the calls of decorated user functions made: [binding, skip]

vars == <<pc, patterns, regexes, exc, line, match, tried, token_index, token,
          file, trace, stack, unwound, argv, in_file, out_file, decorated>>

grepperVars == <<patterns, regexes>>
matchVars == <<line, match, tried, token_index, token>>
mainVars == <<argv, in_file, out_file>>

\* print(..., file=cls.file): the events go to the sink in use.
RECURSIVE Written(_, _)
Written(events, sink) ==
    IF events = <<>> THEN <<>>
    ELSE <<[action |-> Head(events).action, call |-> Head(events).call, file |-> sink]>>
         \o Written(Tail(events), sink)

\* ----------------------------------------------------------------------
\* The module used as a library: Grepper(*patterns), then match_line(line),
\* then match.token(index), as in the class docstring and the tests.
\* ----------------------------------------------------------------------

Init ==
    /\ pc = "new"
    /\ patterns = <<>> /\ regexes = <<>> /\ exc = None
    /\ line = None /\ match = None /\ tried = 0
    /\ token_index = None /\ token = None
    /\ file = "stderr" /\ trace = <<>> /\ stack = <<>> /\ unwound = <<>>
    /\ argv = [patterns |-> <<>>, trace_file |-> "stderr"]
    /\ in_file = [lines |-> <<>>, pos |-> 0] /\ out_file = <<>>
    /\ decorated = <<>>

\* grepper = Grepper(*ps)
Construct ==
    /\ pc = "new"
    /\ \E ps \in PatternSeqs : \E r \in {Grepper__init__(ps)} :
         /\ patterns' = ps
         /\ regexes' = IF r.raised THEN <<>> ELSE r.val
         /\ exc' = IF r.raised THEN Some(r.exc) ELSE None
         /\ pc' = IF r.raised THEN "failed" ELSE "ready"
         /\ trace' = trace \o Written(r.events, file)
         /\ unwound' = unwound \o r.unwound
    /\ UNCHANGED <<matchVars, file, stack, mainVars, decorated>>

\* match = grepper.match_line(l)
MatchLine ==
    /\ pc = "ready"
    /\ \E l \in Lines : \E r \in {match_line(patterns, regexes, l)} :
         /\ line' = Some(l)
         /\ match' = r.val.val
         /\ tried' = r.val.tried
         /\ trace' = trace \o Written(r.events, file)
    /\ pc' = "matched"
    /\ UNCHANGED <<grepperVars, exc, token_index, token, file, stack, unwound,
                   mainVars, decorated>>

\* match.token(i)
Token ==
    /\ pc = "matched"
    /\ match # None
    /\ \E i \in 0..MaxIndex : \E r \in {Match_token(match[1], i)} :
         /\ token_index' = Some(i)
         /\ token' = Some(r)
         /\ exc' = IF r.raised THEN Some(r.exc) ELSE None
    /\ pc' = "token"
    /\ UNCHANGED <<grepperVars, line, match, tried, file, trace, stack, unwound,
                   mainVars, decorated>>

Next == Construct \/ MatchLine \/ Token

Spec == Init /\ [][Next]_vars

\* ----------------------------------------------------------------------
\* What the claims speak of: a template read directly, without escaping.
\* ----------------------------------------------------------------------

\* The placeholder %{digits}, %{digitsG} or %{digitsSdigits} that starts at
\* position i of template t, if any.
PlaceholderAt(t, i) ==
    LET d == DigitRunEnd(t, i + 2)
        n == DigitRunEnd(t, d + 1)
        p(e, mod, count) ==
            Some([tok |-> TRUE, c |-> "", end |-> e, digits |-> SubSeq(t, i + 2, d - 1),
                  mod |-> mod, count |-> count, text |-> SubSeq(t, i, e - 1)])
    IN  IF ~(At(t, i) = "%" /\ At(t, i + 1) = "{" /\ d > i + 2) THEN None
        ELSE IF At(t, d) = "}" THEN p(d + 1, "", 0)
        ELSE IF At(t, d) = "G" /\ At(t, d + 1) = "}" THEN p(d + 2, "G", 0)
        ELSE IF At(t, d) = "S" /\ n > d + 1 /\ At(t, n) = "}"
             THEN p(n + 1, "S", StrToInt(SubSeq(t, d + 1, n - 1)))
        ELSE None

\* The template as literal characters and placeholders, in order.
RECURSIVE PartsFrom(_, _)
PartsFrom(t, i) ==
    IF i > Len(t) THEN <<>>
    ELSE LET p == PlaceholderAt(t, i) IN
         IF p # None THEN p \o PartsFrom(t, p[1].end)
         ELSE <<[tok |-> FALSE, c |-> t[i], end |-> i + 1, digits |-> <<>>,
                 mod |-> "", count |-> 0, text |-> <<t[i]>>]>> \o PartsFrom(t, i + 1)

Parts(t) == PartsFrom(t, 1)
Placeholders(t) == SelectSeq(Parts(t), LAMBDA p : p.tok)

\* The text a group of a match captured.
Captured(wrapped, j) ==
    SubSeq(wrapped.string, wrapped.groups[j].start, wrapped.groups[j].end - 1)

RECURSIVE CountIn(_, _)
CountIn(s, set) ==
    IF s = <<>> THEN 0 ELSE (IF Head(s) \in set THEN 1 ELSE 0) + CountIn(Tail(s), set)

\* The text of a match put together again: the template's literal characters
\* as written, each placeholder replaced by what its group captured.
RECURSIVE Reassembled(_, _, _, _)
Reassembled(parts, k, wrapped, j) ==
    IF k > Len(parts) THEN <<>>
    ELSE IF parts[k].tok
         THEN Captured(wrapped, j) \o Reassembled(parts, k + 1, wrapped, j + 1)
         ELSE <<parts[k].c>> \o Reassembled(parts, k + 1, wrapped, j)

\* match_line has just returned.
Called == pc = "matched"

\* C1: match_line returns a result exactly when some template matches the
\* line; the result carries the text of the first template of the sequence
\* that matches, no template after that one is tried, and with no matching
\* template the result is None after every template was tried.
Matching == {i \in 1..Len(regexes) : re_match(regexes[i], line[1]) # None}
FirstMatching == CHOOSE i \in Matching : \A h \in Matching : i <= h

C1_FirstMatchWins ==
    Called =>
        /\ (match # None) <=> (Matching # {})
        /\ match # None =>
             /\ match[1].pattern = patterns[FirstMatching]
             /\ match[1].wrapped = re_match(regexes[FirstMatching], line[1])[1]
             /\ tried = FirstMatching
        /\ match = None => tried = Len(regexes)

\* Two templates match the line and the first of them is not the last.
C1_Witness ==
    /\ Called /\ match # None
    /\ Cardinality(Matching) >= 2
    /\ patterns[1] # patterns[2]

\* C2: on every successful match the pattern consumed the whole line: the
\* text of group 0 is line(), which is the line given to match_line.
C2_FullLine ==
    (Called /\ match # None) =>
        /\ Match_line(match[1]) = line[1]
        /\ Group0(match[1].wrapped) = Match_line(match[1])

\* The line ends with a newline, which '$' lets the pattern leave over.
C2_Refuted ==
    /\ Called /\ match # None
    /\ Group0(match[1].wrapped) # line[1]

\* C3: Grepper(*patterns) fails with the duplicate-index ValueError, and
\* builds nothing, exactly when some template holds two placeholders whose
\* indices are the same integer.
SameIndex(t) ==
    \E i, j \in 1..Len(Placeholders(t)) :
        i < j /\ StrToInt(Placeholders(t)[i].digits) = StrToInt(Placeholders(t)[j].digits)

DuplicateRaised ==
    pc = "failed" /\ exc # None /\ exc[1].msg = "Duplicate token index"

C3_DuplicateIndex ==
    pc # "new" =>
        /\ (\E i \in 1..Len(patterns) : SameIndex(patterns[i])) <=> DuplicateRaised
        /\ DuplicateRaised => regexes = <<>>

\* C4: token(index) returns the text captured by the placeholder of that
\* index when the matched template has one, and fails with IndexError, which
\* the caller receives, when it has none.
Declaring(t, index) ==
    {j \in 1..Len(Placeholders(t)) : StrToInt(Placeholders(t)[j].digits) = index}

C4_Token ==
    pc = "token" =>
        LET m == match[1]
            declaring == Declaring(m.pattern, token_index[1])
        IN  IF declaring # {}
            THEN /\ ~token[1].raised
                 /\ \E j \in declaring : token[1].val = Captured(m.wrapped, j)
            ELSE /\ token[1].raised
                 /\ token[1].exc.type = "IndexError"
                 /\ exc = Some(token[1].exc)

\* C6: in every match, a placeholder %{iSn} has captured a text that holds
\* exactly n whitespace characters (so a line that cannot give it such a
\* text is not matched).
C6_SpacesLimited ==
    (Called /\ match # None) =>
        LET m == match[1]
            ph == Placeholders(m.pattern)
        IN  /\ Len(m.wrapped.groups) = Len(ph)
            /\ \A j \in 1..Len(ph) :
                 ph[j].mod = "S" =>
                    CountIn(Captured(m.wrapped, j), Whitespace) = ph[j].count

\* A match whose S1 placeholder, next to another placeholder, captured a
\* text around its one whitespace character.
C6_Witness ==
    /\ Called /\ match # None
    /\ LET m == match[1]
           ph == Placeholders(m.pattern)
       IN  /\ Len(ph) >= 2
           /\ \E j \in 1..Len(ph) :
                /\ ph[j].mod = "S" /\ ph[j].count = 1
                /\ Len(Captured(m.wrapped, j)) >= 2

\* C7: in every match the text the pattern consumed is the template's own
\* characters, each as written, with what the groups captured in the place
\* of the placeholders; and the groups are exactly the template's
\* substrings %{digits}, %{digitsG}, %{digitsSdigits}, in order.
C7_LiteralText ==
    (Called /\ match # None) =>
        LET m == match[1]
            ph == Placeholders(m.pattern)
        IN  /\ Len(m.wrapped.groups) = Len(ph)
            /\ \A j \in 1..Len(ph) : m.wrapped.groups[j].name = GroupName(ph[j].digits)
            /\ Reassembled(Parts(m.pattern), 1, m.wrapped, 1) = Group0(m.wrapped)

\* A match of a template that holds a metacharacter and a placeholder.
C7_Witness ==
    /\ Called /\ match # None
    /\ LET parts == Parts(match[1].pattern) IN
       /\ \E k \in 1..Len(parts) : ~parts[k].tok /\ parts[k].c \in {".", BS}
       /\ \E k \in 1..Len(parts) : parts[k].tok
    /\ Len(line[1]) >= 3

\* C8 (as amended): in every match, going through the placeholders from the
\* left, a G placeholder has captured the longest text without a newline,
\* and a placeholder without modifier the shortest, after which the rest of
\* the template matches the rest of the line; and whether a template
\* matches a line does not change when its G modifiers are removed and its
\* plain placeholders made G.
RECURSIVE CloseIndex(_, _, _)
CloseIndex(regex, j, k) ==
    IF regex[k].t = "close"
    THEN (IF j = 1 THEN k ELSE CloseIndex(regex, j - 1, k + 1))
    ELSE CloseIndex(regex, j, k + 1)

\* The lengths placeholder j could have captured from where it started: a
\* text '.' runs over, followed by a match of what comes after the group.
Lengths(regex, wrapped, j) ==
    LET start == wrapped.groups[j].start
        after == CloseIndex(regex, j, 1) + 1
    IN  {n \in 0..(Len(wrapped.string) + 1 - start) :
            /\ \A q \in start..(start + n - 1) : InClass("dot", wrapped.string[q])
            /\ Exec(regex, after, wrapped.string, start + n, <<>>) # None}

Toggled(t) ==
    LET parts == Parts(t)
        swap(p) == IF ~p.tok \/ p.mod = "S" THEN p.text
                   ELSE <<"%", "{">> \o p.digits
                        \o (IF p.mod = "G" THEN <<>> ELSE <<"G">>) \o <<"}">>
    IN  Flatten([k \in 1..Len(parts) |-> swap(parts[k])])

AnyLengths(regex, wrapped, j) ==
    LET start == wrapped.groups[j].start
        after == CloseIndex(regex, j, 1) + 1
    IN  {n \in 0..(Len(wrapped.string) + 1 - start) :
            Exec(regex, after, wrapped.string, start + n, <<>>) # None}

C9_Unescaped ==
    pc # "new" =>
        /\ \A i \in 1..Len(patterns) :
              UnescapeFrom(re_escape(patterns[i]), 1) = patterns[i]
        /\ DuplicateRaised =>
              \E i \in 1..Len(patterns) :
                 /\ exc[1].pattern = patterns[i]
                 /\ \E j \in 1..Len(Placeholders(patterns[i])) :
                       exc[1].token = Placeholders(patterns[i])[j].text

\* ----------------------------------------------------------------------
\* The module run as a program: main(), and the decorator used on its own
\* as in tests/test_code_tracer.py.
\* ----------------------------------------------------------------------

\* At most MaxInputLines lines are read; a test makes at most MaxUserCalls
\* calls of decorated functions.
MaxInputLines == 2
MaxUserCalls == 3

MainTemplates ==
    {<<".">>,
     <<".", "%", "{", "0", "}">>,
     <<"%", "{", "0", "S", "1", "}">>,
     <<"%", "{", "0", "}", "%", "{", "0", "G", "}">>}
MainPatterns ==
    {<<>>} \cup {<<t>> : t \in MainTemplates}
    \cup {<<".", "%", "{", "0", "}">>} \X MainTemplates
MainLines == {<<>>, <<".">>, <<".", ".">>, <<".", " ", ".">>, <<" ">>}
Sinks == {"stderr", "trace_file"}

\* The lines iterating over a text file gives: each ends with a newline,
\* but for the last, which may lack it.
InputFiles ==
    LET contents == UNION {[1..n -> MainLines] : n \in 0..MaxInputLines}
        terminated(c) == [k \in 1..Len(c) |-> c[k] \o <<NL>>]
        unterminated(c) ==
            [k \in 1..Len(c) |-> IF k = Len(c) THEN c[k] ELSE c[k] \o <<NL>>]
    IN  {terminated(c) : c \in contents}
        \cup {unterminated(c) : c \in {x \in contents : x # <<>> /\ x[Len(x)] # <<>>}}

\* The decorated callables of tests/test_code_tracer.py and the instance
\* the wrapper finds for each binding.
Bindings == {"function", "method", "classmethod", "staticmethod"}
DecoratedName(binding) ==
    CASE binding = "function" -> "a_function"
      [] binding = "method" -> "a_method"
      [] binding = "classmethod" -> "a_classmethod"
      [] binding = "staticmethod" -> "a_staticmethod"
BoundInstance(binding) ==
    CASE binding = "function" -> None
      [] binding = "method" -> AnObject("AClass")
      [] binding = "classmethod" -> TheClass("AClass")
      [] binding = "staticmethod" -> None

\* The line is used as read, its newline still on it.
rstrip_kept(s, c) == s

\* str.rstrip(c), c one character
RECURSIVE rstrip(_, _)
rstrip(s, c) ==
    IF s # <<>> /\ s[Len(s)] = c THEN rstrip(SubSeq(s, 1, Len(s) - 1), c) ELSE s

SystemExit(code) == [type |-> "SystemExit", msg |-> code, token |-> <<>>, pattern |-> <<>>]

\* Either the program is started on a command line and an input file, or
\* the module is imported by a test of the decorator.
InitMain ==
    /\ patterns = <<>> /\ regexes = <<>> /\ exc = None
    /\ line = None /\ match = None /\ tried = 0
    /\ token_index = None /\ token = None
    /\ file = "stderr" /\ trace = <<>> /\ stack = <<>> /\ unwound = <<>>
    /\ \/ /\ pc = "start"
          /\ argv \in [patterns : MainPatterns, trace_file : Sinks]
          /\ in_file \in [lines : InputFiles, pos : {0}]
       \/ /\ pc = "imported"
          /\ argv = [patterns |-> <<>>, trace_file |-> "stderr"]
          /\ in_file = [lines |-> <<>>, pos |-> 0]
    /\ out_file = <<>>
    /\ decorated = <<>>

\* A test calls a function decorated with CodeTrace.trace(skip=skip); the
\* body is `pass`.
CallDecorated ==
    /\ pc = "imported"
    /\ Len(decorated) < MaxUserCalls
    /\ \E binding \in Bindings, skip \in BOOLEAN :
       \E r \in {_trace(skip, DecoratedName(binding), BoundInstance(binding),
                        Returned(None, <<>>))} :
         /\ trace' = trace \o Written(r.events, file)
         /\ decorated' = Append(decorated, [binding |-> binding, skip |-> skip])
    /\ UNCHANGED <<pc, grepperVars, exc, matchVars, file, stack, unwound, mainVars>>

\* main() up to its loop: the parser is made, the arguments are parsed
\* (argparse exits with status 2 when no pattern is given), the sink is set
\* and the Grepper is built; a ValueError becomes SystemExit.
MainStart ==
    /\ pc = "start"
    /\ \E parser \in {_trace(FALSE, "_create_parser", None, Returned(None, <<>>))},
          grepper \in {Grepper__init__(argv.patterns)} :
       LET entered == _print_call_arguments("main", None) \o parser.events
       IN  IF argv.patterns = <<>>
           THEN /\ pc' = "exit"
                /\ exc' = Some(SystemExit("2"))
                /\ trace' = trace \o Written(entered, file)
                /\ unwound' = unwound \o <<_format_call("main", None)>>
                /\ UNCHANGED <<grepperVars, file, stack>>
           ELSE /\ file' = argv.trace_file
                /\ trace' = trace \o Written(entered, file)
                                  \o Written(grepper.events, argv.trace_file)
                /\ patterns' = argv.patterns
                /\ IF grepper.raised
                   THEN /\ pc' = "exit"
                        /\ exc' = Some(SystemExit(grepper.exc.msg))
                        /\ regexes' = <<>>
                        /\ unwound' = unwound \o <<_format_call("main", None)>>
                                              \o grepper.unwound
                        /\ UNCHANGED stack
                   ELSE /\ pc' = "loop"
                        /\ regexes' = grepper.val
                        /\ stack' = Append(stack, _format_call("main", None))
                        /\ UNCHANGED <<exc, unwound>>
    /\ UNCHANGED <<matchVars, mainVars, decorated>>

\* One turn of the loop: the next line is read and stripped of its
\* newline, matched, and printed if it matches.
MainLine ==
    /\ pc = "loop"
    /\ in_file.pos < Len(in_file.lines)
    /\ \E l \in {rstrip(in_file.lines[in_file.pos + 1], NL)} :
       \E r \in {match_line(patterns, regexes, l)} :
           /\ line' = Some(l)
           /\ match' = r.val.val
           /\ tried' = r.val.tried
           /\ trace' = trace \o Written(r.events, file)
           /\ out_file' = IF r.val.val # None
                          THEN out_file \o Match_line(r.val.val[1]) \o <<NL>>
                          ELSE out_file
    /\ in_file' = [in_file EXCEPT !.pos = @ + 1]
    /\ UNCHANGED <<pc, grepperVars, exc, token_index, token, file, stack, unwound,
                   argv, decorated>>

\* The input is at its end: main returns.
MainReturn ==
    /\ pc = "loop"
    /\ in_file.pos = Len(in_file.lines)
    /\ trace' = trace \o Written(_print_call_result("main", None), file)
    /\ stack' = SubSeq(stack, 1, Len(stack) - 1)
    /\ pc' = "done"
    /\ UNCHANGED <<grepperVars, exc, matchVars, file, unwound, mainVars, decorated>>

\* KeyboardInterrupt while the next line is awaited: SystemExit(0).
MainInterrupt ==
    /\ pc = "loop"
    /\ exc' = Some(SystemExit("0"))
    /\ unwound' = unwound \o <<_format_call("main", None)>>
    /\ stack' = SubSeq(stack, 1, Len(stack) - 1)
    /\ pc' = "exit"
    /\ UNCHANGED <<grepperVars, matchVars, file, trace, mainVars, decorated>>

NextMain == CallDecorated \/ MainStart \/ MainLine \/ MainReturn \/ MainInterrupt

SpecMain == InitMain /\ [][NextMain]_vars

\* C5: at every point of the run the output holds the lines read so far
\* that some template matches, without their terminator, each once and in
\* the order of the input; when main has returned, every line was read.
WithoutTerminator(l) ==
    IF l # <<>> /\ l[Len(l)] = NL THEN SubSeq(l, 1, Len(l) - 1) ELSE l

Selected(l) == \E i \in 1..Len(regexes) : re_match(regexes[i], l) # None

RECURSIVE Filtered(_, _)
Filtered(lines, n) ==
    IF n = 0 THEN <<>>
    ELSE Filtered(lines, n - 1)
         \o (IF Selected(WithoutTerminator(lines[n]))
             THEN WithoutTerminator(lines[n]) \o <<NL>> ELSE <<>>)

C5_LineFilter ==
    /\ out_file = Filtered(in_file.lines, in_file.pos)
    /\ pc = "done" => in_file.pos = Len(in_file.lines)

\* main has returned after two lines, one printed and one not.
C5_Witness ==
    /\ pc = "done"
    /\ Len(in_file.lines) = 2
    /\ \E j, k \in 1..2 :
          /\ Selected(WithoutTerminator(in_file.lines[j]))
          /\ ~Selected(WithoutTerminator(in_file.lines[k]))
          /\ in_file.lines[j][Len(in_file.lines[j])] = NL

\* C10: every call decorated without skip writes one ENTER and then one
\* EXIT of the same operation, so the events of the trace are bracketed
\* and the ENTER events without EXIT are those of the calls still in
\* progress; a call decorated with skip writes nothing.
RECURSIVE Unmatched(_, _)
Unmatched(events, open) ==
    IF events = <<>> THEN Some(open)
    ELSE IF Head(events).action = "ENTER"
         THEN Unmatched(Tail(events), Append(open, Head(events).call))
    ELSE IF open # <<>> /\ open[Len(open)] = Head(events).call
         THEN Unmatched(Tail(events), SubSeq(open, 1, Len(open) - 1))
    ELSE None

Entered(call) == Len(SelectSeq(trace, LAMBDA e : e.action = "ENTER" /\ e.call = call))

C10_TracePairing ==
    /\ Unmatched(trace, <<>>) = Some(stack)
    /\ \A b \in Bindings :
          Entered(_format_call(DecoratedName(b), BoundInstance(b)))
          = Len(SelectSeq(decorated, LAMBDA d : d.binding = b /\ ~d.skip))
    /\ pc \in {"loop", "done"} =>
          Entered(_format_call("match_line", AnObject("Grepper"))) = in_file.pos

====
